---- MODULE Spec2Model ----
(***************************************************************************)
(* State-machine model of the VideoPlayer component of                     *)
(* react-native-video-player (src/unnamed/part_000).                       *)
(*                                                                         *)
(* The component is a React function component.  Its state is the set of   *)
(* useState cells, the hideControlsTimer ref, the timers and promises it   *)
(* has scheduled and the OS services it drives.  Every handler is one      *)
(* action; handlers created by the render body read the state of the       *)
(* latest render, the callbacks registered by the mount effect and the     *)
(* focus effect (dependency list []) read the state of the FIRST render.   *)
(*                                                                         *)
(* Times are whole seconds.  videoSeek and seek targets are JavaScript     *)
(* numbers: they are modelled as exact rationals plus NaN and +-Infinity   *)
(* (rounding of IEEE doubles is not modelled).                             *)
(***************************************************************************)
EXTENDS Integers, FiniteSets, Sequences, TLC

\* ------------------------------------------------------------------ bounds
ShortDur == 4
LongDur == 20
SliderSteps == 2
MaxVolume == 2
MaxHideTimers == 3
MaxReplayTimers == 2
MaxPortraitTimers == 2
MaxStaleFetches == 1
NarrowSide == 400
WideSide == 800
CustomHeight == 250
CustomPadding == 24

\* ------------------------------------------------------- program constants
SkipSeconds == 10
DefaultHeight == 300
DefaultAndroidPadding == 48
NotchInset == 75
Null == 0 - 1

\* ---------------------------------------------------------------- numbers
RECURSIVE GCD(_, _)
GCD(a, b) == IF b = 0 THEN a ELSE GCD(b, a % b)

Abs(n) == IF n < 0 THEN 0 - n ELSE n

NaN == [k |-> "nan", n |-> 0, d |-> 1]
PInf == [k |-> "pinf", n |-> 0, d |-> 1]
NInf == [k |-> "ninf", n |-> 0, d |-> 1]
NoSeek == [k |-> "none", n |-> 0, d |-> 1]

\* the rational n/d (d > 0) in lowest terms
Num(n, d) ==
    LET g == GCD(Abs(n), d)
    IN  [k |-> "num", n |-> n \div g, d |-> d \div g]

Zero == Num(0, 1)
One == Num(1, 1)

IsNum(x) == x.k = "num"

\* x * m for a number m >= 0   (Infinity * 0 is NaN)
Times(x, m) ==
    CASE x.k = "num" -> Num(x.n * m, x.d)
      [] x.k = "nan" -> NaN
      [] OTHER -> IF m = 0 THEN NaN ELSE x

\* x + m for an integer m
Plus(x, m) ==
    IF x.k = "num" THEN Num(x.n + m * x.d, x.d) ELSE x

\* x / m for a number m >= 0   (0/0 is NaN, t/0 is +-Infinity)
Div(x, m) ==
    CASE x.k = "num" /\ m > 0 -> Num(x.n, x.d * m)
      [] x.k = "num" /\ m = 0 ->
            IF x.n = 0 THEN NaN ELSE IF x.n > 0 THEN PInf ELSE NInf
      [] OTHER -> x

\* x > m and x < m as JavaScript compares them (false when x is NaN)
Gt(x, m) ==
    CASE x.k = "num" -> x.n > m * x.d
      [] x.k = "pinf" -> TRUE
      [] OTHER -> FALSE

Lt(x, m) ==
    CASE x.k = "num" -> x.n < m * x.d
      [] x.k = "ninf" -> TRUE
      [] OTHER -> FALSE

\* ----------------------------------------------------------------- inputs
Durations == {0, ShortDur, LongDur}
TimePoints == {0, ShortDur, LongDur \div 2, LongDur}
Volumes == 0 .. MaxVolume
SliderValues == {Num(i, SliderSteps) : i \in 0 .. SliderSteps}
TimerIds == 1 .. MaxHideTimers
ScreenSides == {NarrowSide, WideSide}

\* the props the Dimensions listener reads, the device and the platform
LayoutConfigs ==
    [height : {Null, CustomHeight},
     rootViewBgColor : {"unset", "custom"},
     androidPaddingVertical : {Null, CustomPadding},
     scrollViewRef : BOOLEAN,
     hasNotch : BOOLEAN,
     android : BOOLEAN]

\* no optional layout prop passed, no scroll view, no notch, iOS
PlainLayout ==
    [height |-> Null,
     rootViewBgColor |-> "unset",
     androidPaddingVertical |-> Null,
     scrollViewRef |-> FALSE,
     hasNotch |-> FALSE,
     android |-> FALSE]

\* ------------------------------------------------------------------ state
VARIABLES
    mounted,            \* the component instance is mounted
    controls,           \* props.controls
    mediaDuration,      \* duration of props.src, as the decoder reports it
    decoderLoaded,      \* the mounted decoder has emitted onLoad
    decoderReady,       \* the mounted decoder has emitted onReadyForDisplay
    isRetry,
    isLoading,
    isVideoReady,
    isPlaying,
    videoDuration,
    videoSeek,
    isSeekBarBusy,
    seekCmd,            \* argument of the last playerRef.current.seek(..)
    replayTimers,       \* pending 100 ms timers of handlePlayPause
    showControls,
    hideControlsTimer,  \* hideControlsTimer.current (0 is null)
    hideTimers,         \* ids of the pending 3000 ms timers
    touching,           \* a touch is down on the control surface
    isFullScreen,
    isStatusBarHidden,
    immersive,          \* Immersive.on() / Immersive.off()
    orientation,        \* last Orientation.lockTo..() call
    portraitTimers,     \* pending 100 ms timers of handleFullScreen
    systemVolume,
    volumeState,
    volumeListening,    \* SystemSetting volume listener is registered
    mountFetch,         \* the mount effect's getVolume() promise is pending
    focused,            \* the screen has focus
    focusFetch,         \* pending getVolume() promise of the live focus effect
    staleFetches,       \* pending getVolume() promises of blurred focus effects
    dimensionListening, \* Dimensions 'change' listener is registered
    layout,             \* layout props, DeviceInfo.hasNotch(), Platform.OS
    screenDimensions,
    hostScroll,         \* native props and offset of scrollViewRef.current
    rootStyle,          \* style patched onto rootElementRef.current
    lastScreen,         \* e.screen of the last Dimensions 'change' event
    lastReported,       \* last value delivered by the volume listener
    muteSeq,            \* progress through: mute, volume change, toggle
    lateCalls,          \* a callback ran after the unmount
    lastOp,             \* name of the last handler that ran
    lastArg             \* fraction that handler was given (Zero when none)

envVars == <<mounted, controls, mediaDuration, decoderLoaded, decoderReady>>
loadVars == <<isRetry, isLoading, isVideoReady>>
seekVars == <<isPlaying, videoDuration, videoSeek, isSeekBarBusy, seekCmd,
              replayTimers>>
ctrlVars == <<showControls, hideControlsTimer, hideTimers, touching>>
fsVars == <<isFullScreen, isStatusBarHidden, immersive, orientation,
            portraitTimers>>
volVars == <<systemVolume, volumeState, volumeListening, mountFetch, focused,
             focusFetch, staleFetches, lastReported, muteSeq>>
layoutVars == <<layout, screenDimensions, hostScroll, rootStyle, lastScreen>>
subVars == <<dimensionListening, layoutVars>>
histVars == <<lateCalls, lastOp, lastArg>>

vars == <<envVars, loadVars, seekVars, ctrlVars, fsVars, volVars, subVars,
          histVars>>

\* ------------------------------------------------------------------- Init
Init ==
    /\ mounted = TRUE
    /\ controls \in BOOLEAN
    /\ mediaDuration \in Durations
    /\ decoderLoaded = FALSE
    /\ decoderReady = FALSE
    /\ isRetry = FALSE
    /\ isLoading = TRUE
    /\ isVideoReady = FALSE
    /\ isPlaying \in BOOLEAN
    /\ videoDuration = 0
    /\ videoSeek = Zero
    /\ isSeekBarBusy = FALSE
    /\ seekCmd = NoSeek
    /\ replayTimers = 0
    /\ showControls = FALSE
    /\ hideControlsTimer = 0
    /\ hideTimers = {}
    /\ touching = FALSE
    /\ isFullScreen = FALSE
    /\ isStatusBarHidden = FALSE
    /\ immersive = FALSE
    /\ orientation = "unlocked"
    /\ portraitTimers = 0
    /\ systemVolume = Null
    /\ volumeState = [isMute |-> FALSE, volume |-> Null]
    /\ volumeListening = TRUE
    /\ mountFetch = TRUE
    /\ focused = TRUE
    /\ focusFetch = TRUE
    /\ staleFetches = 0
    /\ dimensionListening = TRUE
    /\ layout \in LayoutConfigs
    /\ \E w \in ScreenSides :
          screenDimensions =
             [screenHeight |-> (IF layout.height = Null THEN DefaultHeight
                                ELSE layout.height),
              screenWidth |-> w]
    /\ hostScroll = [scrollEnabled |-> TRUE, flex |-> FALSE, y |-> 0]
    /\ rootStyle = [backgroundColor |-> "host", paddingVertical |-> Null]
    /\ lastScreen = <<0, 0>>
    /\ lastReported = Null
    /\ muteSeq = 0
    /\ lateCalls = FALSE
    /\ lastOp = "mount"
    /\ lastArg = Zero

\* the initial states with the plain layout on a narrow screen
InitPlain ==
    /\ Init
    /\ layout = PlainLayout
    /\ screenDimensions.screenWidth = NarrowSide

\* what the render body shows
DecoderMounted == mounted /\ ~isRetry
ControlsRendered == mounted /\ ~isRetry /\ controls /\ showControls

Did(op, arg) == lastOp' = op /\ lastArg' = arg

\* setTimeout handle for a new timer: any id no pending timer uses
NewTimerId(pending) == CHOOSE i \in TimerIds : i \notin pending

\* clearTimeout(hideControlsTimer.current), guarded by the ref being set
ClearRef(pending, ref) == IF ref # 0 THEN pending \ {ref} ELSE pending

\* a timer callback that runs on an unmounted instance
Late == lateCalls' = (lateCalls \/ ~mounted)

\* volumeState as the first render saw it: the value the callbacks of the
\* mount effect and of the focus effect spread into their updates
FirstRenderVolumeState == [isMute |-> FALSE, volume |-> Null]

\* ------------------------------------------------------ decoder lifecycle
onVideoErrorWhilePlaying ==
    /\ DecoderMounted
    /\ isRetry' = isPlaying
    /\ touching' = FALSE
    /\ Did("onVideoError", Zero)
    /\ UNCHANGED <<envVars, isLoading, isVideoReady, seekVars, showControls,
                   hideControlsTimer, hideTimers, fsVars, volVars, subVars,
                   lateCalls>>

onVideoError ==
    /\ DecoderMounted
    /\ isRetry' = TRUE
    /\ touching' = FALSE
    /\ Did("onVideoError", Zero)
    /\ UNCHANGED <<envVars, isLoading, isVideoReady, seekVars, showControls,
                   hideControlsTimer, hideTimers, fsVars, volVars, subVars,
                   lateCalls>>

onRetryClickFullReset ==
    /\ mounted
    /\ isRetry
    /\ isRetry' = FALSE
    /\ isLoading' = TRUE
    /\ decoderLoaded' = FALSE
    /\ decoderReady' = FALSE
    /\ Did("onRetryClick", Zero)
    /\ UNCHANGED <<mounted, controls, mediaDuration, isVideoReady,
                   seekVars, ctrlVars, fsVars, volVars, subVars, lateCalls>>

onRetryClick ==
    /\ mounted
    /\ isRetry
    /\ isRetry' = FALSE
    /\ decoderLoaded' = FALSE
    /\ decoderReady' = FALSE
    /\ Did("onRetryClick", Zero)
    /\ UNCHANGED <<mounted, controls, mediaDuration, isLoading, isVideoReady,
                   seekVars, ctrlVars, fsVars, volVars, subVars, lateCalls>>

onLoad ==
    /\ DecoderMounted
    /\ ~decoderLoaded
    /\ decoderLoaded' = TRUE
    /\ videoDuration' = mediaDuration
    /\ seekCmd' = Zero
    /\ Did("onLoad", Zero)
    /\ UNCHANGED <<mounted, controls, mediaDuration, decoderReady, loadVars,
                   isPlaying, videoSeek, isSeekBarBusy, replayTimers, ctrlVars,
                   fsVars, volVars, subVars, lateCalls>>

onReady ==
    /\ DecoderMounted
    /\ ~decoderReady
    /\ Cardinality(hideTimers) < MaxHideTimers
    /\ decoderReady' = TRUE
    /\ isVideoReady' = TRUE
    /\ showControls' = TRUE
    /\ LET id == NewTimerId(hideTimers)
       IN  /\ hideTimers' = hideTimers \cup {id}
           /\ hideControlsTimer' = id
    /\ Did("onReady", Zero)
    /\ UNCHANGED <<mounted, controls, mediaDuration, decoderLoaded, isRetry,
                   isLoading, seekVars, touching, fsVars, volVars, subVars,
                   lateCalls>>

BufferLoadingClears(isBuffering, loading, ready) ==
    IF isBuffering /\ ~loading
    THEN TRUE
    ELSE IF ~isBuffering /\ loading /\ ready THEN FALSE ELSE loading

BufferLoading(isBuffering, loading, ready) ==
    IF (isBuffering /\ ~loading) \/ (~isBuffering /\ loading /\ ready)
    THEN TRUE
    ELSE loading

onBuffer(isBuffering) ==
    /\ DecoderMounted
    /\ isLoading' = BufferLoading(isBuffering, isLoading, isVideoReady)
    /\ Did("onBuffer", IF isBuffering THEN One ELSE Zero)
    /\ UNCHANGED <<envVars, isRetry, isVideoReady, seekVars, ctrlVars, fsVars,
                   volVars, subVars, lateCalls>>

\* --------------------------------------------------------------- playback
ProgressSeekAlways(busy, seek, currentTime, seekableDuration) ==
    Div(Num(currentTime, 1), seekableDuration)

ProgressSeek(busy, seek, currentTime, seekableDuration) ==
    IF ~busy THEN Div(Num(currentTime, 1), seekableDuration) ELSE seek

onProgress(currentTime, seekableDuration) ==
    /\ DecoderMounted
    /\ isLoading' = (IF isLoading THEN FALSE ELSE isLoading)
    /\ videoSeek' =
          ProgressSeek(isSeekBarBusy, videoSeek, currentTime, seekableDuration)
    /\ Did("onProgress", Div(Num(currentTime, 1), seekableDuration))
    /\ UNCHANGED <<envVars, isRetry, isVideoReady, isPlaying, videoDuration,
                   isSeekBarBusy, seekCmd, replayTimers, ctrlVars, fsVars,
                   volVars, subVars, lateCalls>>

onEnd ==
    /\ DecoderMounted
    /\ videoSeek' = One
    /\ isPlaying' = FALSE
    /\ Did("onEnd", Zero)
    /\ UNCHANGED <<envVars, loadVars, videoDuration, isSeekBarBusy, seekCmd,
                   replayTimers, ctrlVars, fsVars, volVars, subVars, lateCalls>>

handlePlayPauseNoReturn ==
    /\ ControlsRendered
    /\ IF videoSeek = One
       THEN /\ replayTimers < MaxReplayTimers
            /\ videoSeek' = Zero
            /\ seekCmd' = Zero
            /\ replayTimers' = replayTimers + 1
            /\ isPlaying' = ~isPlaying
       ELSE /\ isPlaying' = ~isPlaying
            /\ UNCHANGED <<videoSeek, seekCmd, replayTimers>>
    /\ Did("handlePlayPause", videoSeek)
    /\ UNCHANGED <<envVars, loadVars, videoDuration, isSeekBarBusy, ctrlVars,
                   fsVars, volVars, subVars, lateCalls>>

handlePlayPause ==
    /\ ControlsRendered
    /\ IF videoSeek = One
       THEN /\ replayTimers < MaxReplayTimers
            /\ videoSeek' = Zero
            /\ seekCmd' = Zero
            /\ replayTimers' = replayTimers + 1
            /\ UNCHANGED isPlaying
       ELSE /\ isPlaying' = ~isPlaying
            /\ UNCHANGED <<videoSeek, seekCmd, replayTimers>>
    /\ Did("handlePlayPause", videoSeek)
    /\ UNCHANGED <<envVars, loadVars, videoDuration, isSeekBarBusy, ctrlVars,
                   fsVars, volVars, subVars, lateCalls>>

ReplayTimerFireUnlessEnded ==
    /\ replayTimers > 0
    /\ replayTimers' = replayTimers - 1
    /\ isPlaying' = (IF mounted /\ videoSeek # One THEN TRUE ELSE isPlaying)
    /\ Late
    /\ Did("replayTimer", Zero)
    /\ UNCHANGED <<envVars, loadVars, videoDuration, videoSeek, isSeekBarBusy,
                   seekCmd, ctrlVars, fsVars, volVars, subVars>>

\* the 100 ms callback of handlePlayPause: setIsPlaying(true)
ReplayTimerFire ==
    /\ replayTimers > 0
    /\ replayTimers' = replayTimers - 1
    /\ isPlaying' = (IF mounted THEN TRUE ELSE isPlaying)
    /\ Late
    /\ Did("replayTimer", Zero)
    /\ UNCHANGED <<envVars, loadVars, videoDuration, videoSeek, isSeekBarBusy,
                   seekCmd, ctrlVars, fsVars, volVars, subVars>>

onSeekBarChange(isArray, val) ==
    /\ ControlsRendered
    /\ IF isArray
       THEN /\ seekCmd' = Times(val, videoDuration)
            /\ videoSeek' = val
       ELSE UNCHANGED <<seekCmd, videoSeek>>
    /\ Did("onSeekBarChange", val)
    /\ UNCHANGED <<envVars, loadVars, isPlaying, videoDuration, isSeekBarBusy,
                   replayTimers, ctrlVars, fsVars, volVars, subVars, lateCalls>>

onSeekBarSlidingStart ==
    /\ ControlsRendered
    /\ isSeekBarBusy' = TRUE
    /\ Did("onSeekBarSlidingStart", Zero)
    /\ UNCHANGED <<envVars, loadVars, isPlaying, videoDuration, videoSeek,
                   seekCmd, replayTimers, ctrlVars, fsVars, volVars, subVars,
                   lateCalls>>

onSeekBarSlidingEnd ==
    /\ ControlsRendered
    /\ isSeekBarBusy' = FALSE
    /\ Did("onSeekBarSlidingEnd", Zero)
    /\ UNCHANGED <<envVars, loadVars, isPlaying, videoDuration, videoSeek,
                   seekCmd, replayTimers, ctrlVars, fsVars, volVars, subVars,
                   lateCalls>>

\* newCurrentTime and newCurrentSeekValue of seekForward
ForwardTime(seek, duration) ==
    LET t == Plus(Times(seek, duration), SkipSeconds)
    IN  IF Gt(t, duration) THEN Num(duration, 1) ELSE t

ForwardSeek(seek, duration) ==
    LET t == Plus(Times(seek, duration), SkipSeconds)
    IN  IF Gt(t, duration) THEN Num(duration, 1) ELSE Div(t, duration)

\* newCurrentTime and newCurrentSeekValue of seekBackward
BackwardTime(seek, duration) ==
    LET t == Plus(Times(seek, duration), 0 - SkipSeconds)
    IN  IF Lt(t, 0) THEN Zero ELSE t

BackwardSeek(seek, duration) ==
    LET t == Plus(Times(seek, duration), 0 - SkipSeconds)
    IN  IF Lt(t, 0) THEN Zero ELSE Div(t, duration)

seekForward ==
    /\ ControlsRendered
    /\ seekCmd' = ForwardTime(videoSeek, videoDuration)
    /\ videoSeek' = ForwardSeek(videoSeek, videoDuration)
    /\ Did("seekForward", videoSeek)
    /\ UNCHANGED <<envVars, loadVars, isPlaying, videoDuration, isSeekBarBusy,
                   replayTimers, ctrlVars, fsVars, volVars, subVars, lateCalls>>

seekBackward ==
    /\ ControlsRendered
    /\ seekCmd' = BackwardTime(videoSeek, videoDuration)
    /\ videoSeek' = BackwardSeek(videoSeek, videoDuration)
    /\ Did("seekBackward", videoSeek)
    /\ UNCHANGED <<envVars, loadVars, isPlaying, videoDuration, isSeekBarBusy,
                   replayTimers, ctrlVars, fsVars, volVars, subVars, lateCalls>>

\* ------------------------------------------------------- controls overlay
videoAreaClicked ==
    /\ DecoderMounted
    /\ IF controls
       THEN IF showControls = FALSE
            THEN LET cleared == ClearRef(hideTimers, hideControlsTimer)
                     id == NewTimerId(cleared)
                 IN  /\ Cardinality(cleared) < MaxHideTimers
                     /\ showControls' = TRUE
                     /\ hideTimers' = cleared \cup {id}
                     /\ hideControlsTimer' = id
                     /\ UNCHANGED touching
            ELSE /\ showControls' = FALSE
                 /\ touching' = FALSE
                 /\ UNCHANGED <<hideControlsTimer, hideTimers>>
       ELSE UNCHANGED ctrlVars
    /\ Did("videoAreaClicked", Zero)
    /\ UNCHANGED <<envVars, loadVars, seekVars, fsVars, volVars, subVars,
                   lateCalls>>

onTouchStart ==
    /\ ControlsRendered
    /\ ~touching
    /\ touching' = TRUE
    /\ hideTimers' = (IF hideControlsTimer # 0 /\ controls
                      THEN hideTimers \ {hideControlsTimer}
                      ELSE hideTimers)
    /\ Did("onTouchStart", Zero)
    /\ UNCHANGED <<envVars, loadVars, seekVars, showControls,
                   hideControlsTimer, fsVars, volVars, subVars, lateCalls>>

onTouchEnd ==
    /\ ControlsRendered
    /\ touching
    /\ touching' = FALSE
    /\ IF controls
       THEN LET id == NewTimerId(hideTimers)
            IN  /\ Cardinality(hideTimers) < MaxHideTimers
                /\ hideTimers' = hideTimers \cup {id}
                /\ hideControlsTimer' = id
       ELSE UNCHANGED <<hideTimers, hideControlsTimer>>
    /\ Did("onTouchEnd", Zero)
    /\ UNCHANGED <<envVars, loadVars, seekVars, showControls, fsVars, volVars,
                   subVars, lateCalls>>

\* the 3000 ms callback: setShowControls(false)
HideTimerFire(id) ==
    /\ id \in hideTimers
    /\ hideTimers' = hideTimers \ {id}
    /\ showControls' = (IF mounted THEN FALSE ELSE showControls)
    /\ touching' = FALSE
    /\ Late
    /\ Did("hideTimer", Zero)
    /\ UNCHANGED <<envVars, loadVars, seekVars, hideControlsTimer, fsVars,
                   volVars, subVars>>

\* ------------------------------------------------------------- fullscreen
handleFullScreenKeepsStatusBar ==
    /\ ControlsRendered
    /\ IF isFullScreen
       THEN /\ portraitTimers < MaxPortraitTimers
            /\ immersive' = FALSE
            /\ isFullScreen' = FALSE
            /\ portraitTimers' = portraitTimers + 1
            /\ UNCHANGED <<orientation, isStatusBarHidden>>
       ELSE /\ isFullScreen' = TRUE
            /\ orientation' = "landscape"
            /\ isStatusBarHidden' = TRUE
            /\ immersive' = TRUE
            /\ UNCHANGED portraitTimers
    /\ Did("handleFullScreen", Zero)
    /\ UNCHANGED <<envVars, loadVars, seekVars, ctrlVars, volVars, subVars,
                   lateCalls>>

handleFullScreen ==
    /\ ControlsRendered
    /\ IF isFullScreen
       THEN /\ portraitTimers < MaxPortraitTimers
            /\ immersive' = FALSE
            /\ isFullScreen' = FALSE
            /\ isStatusBarHidden' = FALSE
            /\ portraitTimers' = portraitTimers + 1
            /\ UNCHANGED orientation
       ELSE /\ isFullScreen' = TRUE
            /\ orientation' = "landscape"
            /\ isStatusBarHidden' = TRUE
            /\ immersive' = TRUE
            /\ UNCHANGED portraitTimers
    /\ Did("handleFullScreen", Zero)
    /\ UNCHANGED <<envVars, loadVars, seekVars, ctrlVars, volVars, subVars,
                   lateCalls>>

\* the 100 ms callback of handleFullScreen: Orientation.lockToPortrait()
PortraitTimerFire ==
    /\ portraitTimers > 0
    /\ portraitTimers' = portraitTimers - 1
    /\ orientation' = "portrait"
    /\ Late
    /\ Did("portraitTimer", Zero)
    /\ UNCHANGED <<envVars, loadVars, seekVars, ctrlVars, isFullScreen,
                   isStatusBarHidden, immersive, volVars, subVars>>

\* ----------------------------------------------------------------- volume
toggleMuteButton ==
    /\ ControlsRendered
    /\ volumeState' =
          IF ~volumeState.isMute
          THEN [volumeState EXCEPT !.isMute = ~volumeState.isMute,
                                   !.volume = 0]
          ELSE [volumeState EXCEPT !.isMute = ~volumeState.isMute,
                                   !.volume = systemVolume]
    /\ muteSeq' = (IF muteSeq = 2 THEN 3
                   ELSE IF ~volumeState.isMute THEN 1 ELSE 0)
    /\ Did("toggleMuteButton", Zero)
    /\ UNCHANGED <<envVars, loadVars, seekVars, ctrlVars, fsVars, systemVolume,
                   volumeListening, mountFetch, focused, focusFetch,
                   staleFetches, lastReported, subVars, lateCalls>>

volumeListenerKeepsMute(value) ==
    /\ volumeListening
    /\ volumeState' = [volumeState EXCEPT !.volume = value]
    /\ lastReported' = value
    /\ muteSeq' = (IF muteSeq \in {1, 2} THEN 2 ELSE 0)
    /\ Did("volumeListener", Zero)
    /\ UNCHANGED <<envVars, loadVars, seekVars, ctrlVars, fsVars, systemVolume,
                   volumeListening, mountFetch, focused, focusFetch,
                   staleFetches, subVars, lateCalls>>

\* SystemSetting.addVolumeListener callback
volumeListener(value) ==
    /\ volumeListening
    /\ volumeState' = [FirstRenderVolumeState EXCEPT !.volume = value]
    /\ lastReported' = value
    /\ muteSeq' = (IF muteSeq \in {1, 2} THEN 2 ELSE 0)
    /\ Did("volumeListener", Zero)
    /\ UNCHANGED <<envVars, loadVars, seekVars, ctrlVars, fsVars, systemVolume,
                   volumeListening, mountFetch, focused, focusFetch,
                   staleFetches, subVars, lateCalls>>

\* the mount effect's SystemSetting.getVolume().then(..)
MountVolumeResolved(value) ==
    /\ mountFetch
    /\ mountFetch' = FALSE
    /\ IF mounted
       THEN /\ systemVolume' = value
            /\ volumeState' = [FirstRenderVolumeState EXCEPT !.volume = value]
       ELSE UNCHANGED <<systemVolume, volumeState>>
    /\ muteSeq' = 0
    /\ Did("mountVolume", Zero)
    /\ UNCHANGED <<envVars, loadVars, seekVars, ctrlVars, fsVars,
                   volumeListening, focused, focusFetch, staleFetches,
                   lastReported, subVars, lateCalls>>

\* useFocusEffect: the screen gains focus, getSystemVolume() starts
ScreenFocus ==
    /\ mounted
    /\ ~focused
    /\ focused' = TRUE
    /\ focusFetch' = TRUE
    /\ Did("focus", Zero)
    /\ UNCHANGED <<envVars, loadVars, seekVars, ctrlVars, fsVars, systemVolume,
                   volumeState, volumeListening, mountFetch, staleFetches,
                   lastReported, muteSeq, subVars, lateCalls>>

\* useFocusEffect cleanup: isActive = false
ScreenBlur ==
    /\ mounted
    /\ focused
    /\ focusFetch => staleFetches < MaxStaleFetches
    /\ focused' = FALSE
    /\ focusFetch' = FALSE
    /\ staleFetches' = (IF focusFetch THEN staleFetches + 1 ELSE staleFetches)
    /\ Did("blur", Zero)
    /\ UNCHANGED <<envVars, loadVars, seekVars, ctrlVars, fsVars, systemVolume,
                   volumeState, volumeListening, mountFetch, lastReported,
                   muteSeq, subVars, lateCalls>>

\* the focus effect's getVolume().then(..) while its isActive is true
FocusVolumeResolved(value) ==
    /\ focusFetch
    /\ focusFetch' = FALSE
    /\ volumeState' = [FirstRenderVolumeState EXCEPT !.volume = value]
    /\ muteSeq' = 0
    /\ Did("focusVolume", Zero)
    /\ UNCHANGED <<envVars, loadVars, seekVars, ctrlVars, fsVars, systemVolume,
                   volumeListening, mountFetch, focused, staleFetches,
                   lastReported, subVars, lateCalls>>

\* the same promise resolving after the cleanup: isActive is false
StaleVolumeResolved ==
    /\ staleFetches > 0
    /\ staleFetches' = staleFetches - 1
    /\ Did("staleVolume", Zero)
    /\ UNCHANGED <<envVars, loadVars, seekVars, ctrlVars, fsVars, systemVolume,
                   volumeState, volumeListening, mountFetch, focused,
                   focusFetch, lastReported, muteSeq, subVars, lateCalls>>

\* ---------------------------------------------------------------- unmount
\* cleanup of the mount effect and of the focus effect
Unmount ==
    /\ mounted
    /\ focusFetch => staleFetches < MaxStaleFetches
    /\ mounted' = FALSE
    /\ volumeListening' = FALSE
    /\ hideTimers' = ClearRef(hideTimers, hideControlsTimer)
    /\ dimensionListening' = FALSE
    /\ focused' = FALSE
    /\ focusFetch' = FALSE
    /\ staleFetches' = (IF focusFetch THEN staleFetches + 1 ELSE staleFetches)
    /\ touching' = FALSE
    /\ Did("unmount", Zero)
    /\ UNCHANGED <<controls, mediaDuration, decoderLoaded, decoderReady,
                   loadVars, seekVars, showControls, hideControlsTimer, fsVars,
                   systemVolume, volumeState, mountFetch, lastReported,
                   muteSeq, lateCalls, layoutVars>>

\* ----------------------------------------------------------------- layout
\* finalHeight and finalWidth of the Dimensions 'change' listener
LayoutHeight(width, height) ==
    IF height > width
    THEN (IF layout.height = Null THEN DefaultHeight ELSE layout.height)
    ELSE height

LayoutWidthNoNotch(width, height) == width

LayoutWidth(width, height) ==
    IF height > width
    THEN width
    ELSE IF layout.hasNotch THEN width - NotchInset ELSE width

\* rootStyle of the portrait branch and of the landscape branch
PortraitRootStyle ==
    [backgroundColor |->
        (IF layout.rootViewBgColor = "unset" THEN "#fff"
         ELSE layout.rootViewBgColor),
     paddingVertical |->
        (IF layout.android
         THEN (IF layout.androidPaddingVertical = Null
               THEN DefaultAndroidPadding
               ELSE layout.androidPaddingVertical)
         ELSE Null)]

LandscapeRootStyle ==
    [backgroundColor |->
        (IF layout.rootViewBgColor = "unset" THEN "#000"
         ELSE layout.rootViewBgColor),
     paddingVertical |-> (IF layout.android THEN 0 ELSE Null)]

\* Dimensions.addEventListener('change', ..) callback
dimensionsChanged(width, height) ==
    /\ dimensionListening
    /\ IF height > width
       THEN /\ rootStyle' = PortraitRootStyle
            /\ hostScroll' =
                  (IF layout.scrollViewRef
                   THEN [hostScroll EXCEPT !.scrollEnabled = TRUE]
                   ELSE hostScroll)
       ELSE /\ hostScroll' =
                  (IF layout.scrollViewRef
                   THEN [scrollEnabled |-> FALSE, flex |-> TRUE, y |-> 0]
                   ELSE hostScroll)
            /\ rootStyle' = LandscapeRootStyle
    /\ screenDimensions' =
          (IF mounted
           THEN [screenWidth |-> LayoutWidth(width, height),
                 screenHeight |-> LayoutHeight(width, height)]
           ELSE screenDimensions)
    /\ lastScreen' = <<width, height>>
    /\ Did("dimensionsChanged", Zero)
    /\ UNCHANGED <<envVars, loadVars, seekVars, ctrlVars, fsVars, volVars,
                   dimensionListening, layout, lateCalls>>

\* the user scrolls the host scroll view away from the top
HostScrolled ==
    /\ mounted
    /\ layout.scrollViewRef
    /\ hostScroll.scrollEnabled
    /\ hostScroll.y = 0
    /\ hostScroll' = [hostScroll EXCEPT !.y = 1]
    /\ Did("hostScrolled", Zero)
    /\ UNCHANGED <<envVars, loadVars, seekVars, ctrlVars, fsVars, volVars,
                   dimensionListening, layout, screenDimensions, rootStyle,
                   lastScreen, lateCalls>>

\* ------------------------------------------------------------ environment
ProgressInputs ==
    {<<c, s>> \in TimePoints \X {0, mediaDuration} : c <= s}

DecoderEvents ==
    \/ onLoad
    \/ onReady
    \/ \E b \in BOOLEAN : onBuffer(b)
    \/ \E p \in ProgressInputs : onProgress(p[1], p[2])
    \/ onEnd

ErrorEvents ==
    \/ onVideoError
    \/ onRetryClick

OverlayEvents ==
    \/ videoAreaClicked
    \/ \E id \in TimerIds : HideTimerFire(id)

TouchEvents ==
    \/ onTouchStart
    \/ onTouchEnd

PlaybackEvents ==
    \/ handlePlayPause
    \/ ReplayTimerFire
    \/ \E a \in BOOLEAN : \E v \in SliderValues : onSeekBarChange(a, v)
    \/ onSeekBarSlidingStart
    \/ onSeekBarSlidingEnd
    \/ seekForward
    \/ seekBackward

FullScreenEvents ==
    \/ handleFullScreen
    \/ PortraitTimerFire

LayoutEvents ==
    \/ \E w \in ScreenSides : \E h \in ScreenSides : dimensionsChanged(w, h)
    \/ HostScrolled

VolumeEvents ==
    \/ toggleMuteButton
    \/ \E v \in Volumes : volumeListener(v)
    \/ \E v \in Volumes : MountVolumeResolved(v)
    \/ ScreenFocus
    \/ ScreenBlur
    \/ \E v \in Volumes : FocusVolumeResolved(v)
    \/ StaleVolumeResolved

Next ==
    \/ DecoderEvents
    \/ ErrorEvents
    \/ OverlayEvents
    \/ TouchEvents
    \/ PlaybackEvents
    \/ FullScreenEvents
    \/ VolumeEvents
    \/ LayoutEvents
    \/ Unmount

Spec == Init /\ [][Next]_vars

\* --------------------------------------------------------- specifications
\* Each specification below delivers the events of one part of the component
\* and no others; the handlers it leaves out leave that part's variables
\* unchanged (see their UNCHANGED clauses).  All but SpecLayout start from the
\* plain layout, which only the Dimensions listener reads.

\* playback position: decoder load/progress/end, the overlay and its buttons
NextSeek ==
    \/ onLoad
    \/ \E p \in ProgressInputs : onProgress(p[1], p[2])
    \/ onEnd
    \/ OverlayEvents
    \/ PlaybackEvents

SpecSeek == InitPlain /\ [][NextSeek]_vars

\* mute and system volume
NextVolume ==
    \/ OverlayEvents
    \/ VolumeEvents
    \/ Unmount

SpecVolume == InitPlain /\ [][NextVolume]_vars

\* controls overlay, loading indicator and retry
NextControls ==
    \/ onReady
    \/ \E b \in BOOLEAN : onBuffer(b)
    \/ \E p \in ProgressInputs : onProgress(p[1], p[2])
    \/ ErrorEvents
    \/ OverlayEvents
    \/ TouchEvents

SpecControls == InitPlain /\ [][NextControls]_vars

\* everything that schedules a timer or holds a subscription, and the unmount
NextLifecycle ==
    \/ onReady
    \/ onEnd
    \/ OverlayEvents
    \/ TouchEvents
    \/ handlePlayPause
    \/ ReplayTimerFire
    \/ FullScreenEvents
    \/ Unmount

SpecLifecycle == InitPlain /\ [][NextLifecycle]_vars

\* rotation and resize notifications, with every layout configuration
NextLayout ==
    \/ LayoutEvents
    \/ handleFullScreen
    \/ videoAreaClicked
    \/ Unmount

SpecLayout == Init /\ [][NextLayout]_vars

\* decoder errors arriving in any playback state: loading, playing, paused,
\* ended, dragging the seek bar, fullscreen, muted
NextError ==
    \/ \E p \in ProgressInputs : onProgress(p[1], p[2])
    \/ onEnd
    \/ ErrorEvents
    \/ OverlayEvents
    \/ onSeekBarSlidingStart
    \/ onSeekBarSlidingEnd
    \/ FullScreenEvents
    \/ toggleMuteButton

SpecError == InitPlain /\ [][NextError]_vars

\* replay at the end: everything that can be delivered between the replay
\* tap and its 100 ms callback
NextReplay ==
    \/ \E p \in ProgressInputs : onProgress(p[1], p[2])
    \/ onEnd
    \/ OverlayEvents
    \/ handlePlayPause
    \/ ReplayTimerFire
    \/ Unmount

SpecReplay == InitPlain /\ [][NextReplay]_vars

\* error and retry with the state they must leave alone made to vary:
\* position, duration, loading, overlay, mute, volume, fullscreen, screen size
NextRetry ==
    \/ ErrorEvents
    \/ \E p \in ProgressInputs : onProgress(p[1], p[2])
    \/ onEnd
    \/ videoAreaClicked
    \/ handleFullScreen
    \/ toggleMuteButton
    \/ \E v \in Volumes : volumeListener(v)
    \/ \E w \in ScreenSides : \E h \in ScreenSides : dimensionsChanged(w, h)

SpecRetry == InitPlain /\ [][NextRetry]_vars

\* ----------------------------------------------------------------- claims
InUnit(x) == IsNum(x) /\ ~Lt(x, 0) /\ ~Gt(x, 1)

\* volume={volume ?? 0}: the output level the decoder is given
EffectiveVolume ==
    IF volumeState.volume = Null THEN 0 ELSE volumeState.volume

\* C1: while isSeekBarBusy is true, an onProgress event, whatever currentTime
\* and seekableDuration it carries, leaves videoSeek unchanged.
C1_BusyProgressKeepsSeek ==
    [][(lastOp' = "onProgress" /\ isSeekBarBusy) => videoSeek' = videoSeek]_vars

\* an onProgress event arrived during a drag, reporting a fraction other than
\* the one the seek bar holds
C1_Witness ==
    /\ lastOp = "onProgress"
    /\ isSeekBarBusy
    /\ IsNum(lastArg)
    /\ lastArg # videoSeek

\* C2: handlePlayPause called with videoSeek = 1 resets videoSeek to 0, issues
\* seek(0) and schedules the 100 ms timer without touching isPlaying in that
\* step; it is the timer's callback that sets isPlaying to true.
C2_ReplaySeeksBeforePlaying ==
    [][/\ (lastOp' = "handlePlayPause" /\ videoSeek = One) =>
            /\ videoSeek' = Zero
            /\ seekCmd' = Zero
            /\ isPlaying' = isPlaying
            /\ replayTimers' = replayTimers + 1
       /\ (lastOp' = "replayTimer" /\ mounted) => isPlaying']_vars

\* play was pressed at the end of the media while paused: position reset,
\* seek(0) issued, timer pending, still paused
C2_Witness ==
    /\ lastOp = "handlePlayPause"
    /\ lastArg = One
    /\ videoSeek = Zero
    /\ seekCmd = Zero
    /\ replayTimers > 0
    /\ ~isPlaying

\* C3: after a press of the mute button that mutes, a volume notification
\* reporting V and the next press of the mute button, the volume given to
\* the decoder is V.
C3_UnmuteRestoresReported ==
    muteSeq = 3 => EffectiveVolume = lastReported

\* C4: a volume notification delivered while muted leaves isMute true and the
\* local volume 0, and stores the reported value in systemVolume.
C4_NotificationKeepsMute ==
    [][(lastOp' = "volumeListener" /\ volumeState.isMute) =>
            /\ volumeState'.isMute
            /\ volumeState'.volume = 0
            /\ systemVolume' = lastReported']_vars

\* C5: at most one auto-hide timer is pending in every reachable state.
C5_AtMostOneHideTimer == Cardinality(hideTimers) <= 1

\* C6: once unmounted, both subscriptions are released and no timer is
\* pending: no auto-hide timer, no replay timer, no portrait-lock timer.
C6_UnmountReleasesAll ==
    ~mounted =>
        /\ ~volumeListening
        /\ ~dimensionListening
        /\ hideTimers = {}
        /\ replayTimers = 0
        /\ portraitTimers = 0

\* C7: with a duration > 0, videoSeek (when it is a number) lies in [0, 1].
C7_SeekInUnitInterval ==
    (videoDuration > 0 /\ IsNum(videoSeek)) => InUnit(videoSeek)

\* C8: every numeric seek target issued to the decoder lies in
\* [0, videoDuration].
C8_SeekTargetInRange ==
    IsNum(seekCmd) => (~Lt(seekCmd, 0) /\ ~Gt(seekCmd, videoDuration))

\* C9: for a duration D > 0: seekBackward right after a seekForward that did
\* not clamp returns videoSeek to the value before the seekForward;
\* seekForward at t = D leaves the position (videoSeek * D, and the seek
\* target) at D; seekBackward at t = 0 leaves them at 0.
C9_ForwardBackward ==
    [][videoDuration > 0 =>
        /\ (/\ lastOp = "seekForward"
            /\ lastOp' = "seekBackward"
            /\ InUnit(lastArg)
            /\ ~Gt(Plus(Times(lastArg, videoDuration), SkipSeconds),
                   videoDuration)) => videoSeek' = lastArg
        /\ (lastOp' = "seekForward" /\ videoSeek = One) =>
                /\ seekCmd' = Num(videoDuration, 1)
                /\ Times(videoSeek', videoDuration) = Num(videoDuration, 1)
        /\ (lastOp' = "seekBackward" /\ videoSeek = Zero) =>
                /\ seekCmd' = Zero
                /\ videoSeek' = Zero]_vars

\* C10: right after the retry action that follows a decoder error, the retry
\* prompt is cleared and the loading indicator is on.
C10_RetryEntersLoading ==
    lastOp = "onRetryClick" => (~isRetry /\ isLoading)

\* what the render body puts on screen
RetryPromptRendered == mounted /\ isRetry

\* the container's style entry isFullScreen && {position: 'absolute'}
AbsoluteFlag == isFullScreen

\* C11: a decoder onError event, in whatever state it arrives, sets isRetry,
\* so that the retry prompt is rendered instead of the decoder and the
\* control overlay; isRetry then stays true until onRetryClick.
C11_ErrorEntersRetrying ==
    [][/\ lastOp' = "onVideoError" =>
            /\ RetryPromptRendered'
            /\ ~DecoderMounted'
            /\ ~ControlsRendered'
       /\ (isRetry /\ lastOp' # "onRetryClick") => isRetry']_vars

\* an error arrived while playing in fullscreen, muted, with the overlay up
\* and the loading indicator already cleared
C11_Witness ==
    /\ lastOp = "onVideoError"
    /\ RetryPromptRendered
    /\ isPlaying
    /\ isFullScreen
    /\ volumeState.isMute
    /\ showControls
    /\ ~isLoading

C13_OrientationMatches ==
    (mounted /\ portraitTimers = 0) =>
        ((orientation = "landscape") <=> isFullScreen)

ConfiguredHeight ==
    IF layout.height = Null THEN DefaultHeight ELSE layout.height

C15_NoZeroDivision ==
    /\ IsNum(videoSeek)
    /\ seekCmd.k \in {"none", "num"}
    /\ (videoDuration = 0 /\ lastOp \in {"seekForward", "seekBackward"}) =>
            (videoSeek = Zero /\ seekCmd = Zero)

\* C16: whenever isMute is true the local volume is 0, and so is the level
\* the decoder is given.
C16_MutedMeansSilent ==
    volumeState.isMute => (volumeState.volume = 0 /\ EffectiveVolume = 0)

\* muted after the mount-time fetch resolved and a notification arrived,
\* both with a volume above 0
C16_Witness ==
    /\ volumeState.isMute
    /\ lastOp = "toggleMuteButton"
    /\ ~mountFetch
    /\ systemVolume > 0
    /\ lastReported > 0

\* C17: right after onReady, isLoading is false, showControls is true and a
\* hide timer is pending.
C17_ReadyClearsLoading ==
    lastOp = "onReady" => (~isLoading /\ showControls /\ hideTimers # {})

\* C18: onBuffer(b) sets isLoading to true exactly when (b and not loading)
\* or (not b and loading and ready) and otherwise leaves it unchanged; it
\* never sets isLoading to false.
C18_BufferSetsLoading ==
    [][lastOp' = "onBuffer" =>
        LET b == (lastArg' = One)
            fires == (b /\ ~isLoading) \/ (~b /\ isLoading /\ isVideoReady)
        IN  /\ fires => isLoading'
            /\ ~fires => isLoading' = isLoading
            /\ isLoading => isLoading'
            /\ (b /\ isLoading /\ ~isVideoReady) => isLoading'
            /\ (~b /\ ~isLoading) => ~isLoading']_vars

\* buffering ended while loading with the first frame ready: still loading
C18_Witness ==
    /\ lastOp = "onBuffer"
    /\ lastArg = Zero
    /\ isVideoReady
    /\ isLoading

\* C19: whenever the control overlay is shown and no touch is down on it, a
\* hide timer is pending.
C19_ShownMeansTimerPending ==
    (ControlsRendered /\ ~touching) => hideTimers # {}

\* C20: no hide timer fires while a touch is down on the control surface.
C20_NoHideDuringTouch ==
    [][~(touching /\ lastOp' = "hideTimer")]_vars

\* C21: the 100 ms callback of a replay tap is never cancelled: only its own
\* firing removes it, and when it fires on a mounted component isPlaying is
\* true afterwards, whatever toggles, onEnd or onProgress came in between.
C21_ReplayTimerForcesPlaying ==
    [][/\ (lastOp' = "replayTimer" /\ mounted) => isPlaying'
       /\ replayTimers' < replayTimers => lastOp' = "replayTimer"]_vars

\* the callback fired after an onEnd that followed the replay tap: playing
\* with the position at the end
C21_Witness ==
    /\ lastOp = "replayTimer"
    /\ mounted
    /\ isPlaying
    /\ videoSeek = One

\* the state the retry prompt has no business with
RetryFrame ==
    <<isPlaying, videoSeek, videoDuration, isLoading, isVideoReady,
      isSeekBarBusy, showControls, volumeState, systemVolume, isFullScreen,
      screenDimensions>>

====
